---- MODULE Spec2Model ----
(***************************************************************************)
(* The widget backend of Surge747/ANUHACK-2: the JSON-file Artifact Store  *)
(* (backend/db.py), the generation endpoint and the execution endpoint     *)
(* (backend/main.py), and the dynamic loader (backend/widget_runner.py).   *)
(*                                                                         *)
(* The specifications share the variables:                                 *)
(*   Spec      store and generation operations called from threads (the    *)
(*             sync endpoints of main.py run in FastAPI's thread pool)     *)
(*             plus direct concurrent callers of increment_usage_count;    *)
(*   SpecGen   the generation endpoint alone;                              *)
(*   SpecInc   callers of increment_usage_count alone;                     *)
(*   SpecList  the listing and read endpoints beside increments, over a    *)
(*             directory that may hold files this program did not write;   *)
(*   SpecExec  execution requests whose steps interleave freely (one       *)
(*             thread per request);                                        *)
(*   SpecLoop  execution requests as the code schedules them: coroutines   *)
(*             of one event loop, which switch only at `await`.            *)
(***************************************************************************)
EXTENDS Integers, Sequences, FiniteSets, TLC

\* ------------------------------------------------------------- bounds
NumProcs == 2
MaxClock == 2
MaxCreates == 2
MaxIncs == 2
MaxRequests == 2

Procs == 1..NumProcs
\* Widget ids: id 0 is a widget stored by an earlier run of the server
\* (Spec), ids 1..MaxClock are the values the clock can take.
Ids == 0..MaxClock

VARIABLES
    clock,        \* time.time() * 1000, truncated (db.py:32)
    files,        \* widgets/<id>.json : content of each file
    th,           \* per thread / request handler: its position and locals
    sys_modules,  \* sys.modules["dynamic_widget_module"]
    bundles,      \* the NamedTemporaryFile of each invocation
    uploads,      \* uploads/<filename> : content of each file
    sched,        \* "threads" or "loop"
    cur,          \* the coroutine the event loop is running (0: none)
    created,      \* history: the values create_widget returned, per id
    highest,      \* history: the highest usage_count stored, per id
    incReturned,  \* history: increment_usage_count calls returned, per id
    nreq,         \* history: execution requests begun
    outputs       \* history: output (success) responses, per id

vars == <<clock, files, th, sys_modules, bundles, uploads, sched, cur,
          created, highest, incReturned, nreq, outputs>>

storeVars == <<clock, files, created, highest, incReturned>>
execVars == <<sys_modules, bundles, uploads, nreq>>

\* ------------------------------------------------------------- values
NoFile == [kind |-> "nofile"]
\* A file opened with mode "w" and not yet closed: it exists and is empty.
EmptyFile == [kind |-> "empty"]
None == [kind |-> "none"]

\* python_code values, by what loading and calling them does.
\* "selfdestruct" removes its own registry entry and its own file while it
\* loads, and then raises.
Codes == {"echo", "noresults", "image", "syntaxerror", "selfdestruct",
          "noentry", "raises"}

required_keys == {"name", "category", "python_code", "html_code"}

\* datetime -> ISO string -> datetime (model_dump(mode='json'), Widget(**data))
isoformat(t) == <<"iso", t>>
fromisoformat(s) == s[2]

\* json.dump(widget.model_dump(mode='json'), f): the document written.
model_dump_json(w) ==
    [kind |-> "doc",
     doc |-> [id |-> w.id, name |-> w.name, category |-> w.category,
              python_code |-> w.python_code, html_code |-> w.html_code,
              creation_date |-> isoformat(w.creation_date),
              usage_count |-> w.usage_count]]

\* Files this program did not write: text that is not JSON, a JSON array,
\* and a JSON object without the field usage_count.
Garbage == [kind |-> "garbage"]
ArrayFile == [kind |-> "array"]
PartialDoc(id) == [kind |-> "partial", doc |-> [id |-> id, name |-> "w"]]

\* json.load(f) then models.Widget(**data). An empty file and garbage do
\* not parse (json.JSONDecodeError); `**` of a list is a TypeError; a
\* missing field is pydantic's ValidationError, which is a ValueError and
\* neither of the other two.
json_load(content) ==
    IF content.kind = "doc"
    THEN [ok |-> TRUE,
          widget |-> [content.doc EXCEPT
                        !.creation_date = fromisoformat(@)]]
    ELSE IF content.kind = "array" THEN [ok |-> FALSE, error |-> "TypeError"]
    ELSE IF content.kind = "partial"
    THEN [ok |-> FALSE, error |-> "ValidationError"]
    ELSE [ok |-> FALSE, error |-> "JSONDecodeError"]

path_exists(content) == content.kind # "nofile"

\* Ids count the clock from Epoch: the file of id i is
\* widgets/<Epoch + i>.json (db.py:40). str() of an integer, as code points.
Epoch == 8
RECURSIVE str(_)
str(n) == IF n < 10 THEN <<48 + n>> ELSE Append(str(n \div 10), 48 + (n % 10))

\* f"{widget_id}.json": ".json" is 46 106 115 111 110.
Filename(id) == str(Epoch + id) \o <<46, 106, 115, 111, 110>>

\* Python's < on str: the first differing code point decides, a proper
\* prefix is smaller.
RECURSIVE StrLess(_, _)
StrLess(a, b) ==
    IF b = <<>> THEN FALSE
    ELSE IF a = <<>> THEN TRUE
    ELSE IF Head(a) # Head(b) THEN Head(a) < Head(b)
    ELSE StrLess(Tail(a), Tail(b))

\* sorted(os.listdir(WIDGETS_DIR), reverse=True) (db.py:61), as the ids
\* whose files the names are.
RECURSIVE SortedReverse(_)
SortedReverse(ids) ==
    IF ids = {} THEN <<>>
    ELSE LET top == CHOOSE i \in ids :
                      \A j \in ids \ {i} : StrLess(Filename(j), Filename(i))
         IN <<top>> \o SortedReverse(ids \ {top})

\* models.Widget(id=..., creation_date=..., usage_count=0, **widget_data)
NewWidget(id, date, data) ==
    [id |-> id, name |-> data.name, category |-> data.category,
     python_code |-> data.python_code, html_code |-> data.html_code,
     creation_date |-> date, usage_count |-> 0]

\* Upload file names: "x/y" names a directory that does not exist, so
\* open("uploads/x/y", "wb") fails.
Filenames == {"f", "g"}
BadName == "x/y"

Text(key) == [key |-> key, kind |-> "text", value |-> "v"]
File(key, filename) == [key |-> key, kind |-> "file", value |-> filename]

\* request.form().items(): the fields of one request, in order, keys
\* distinct.
Forms ==
    {<<>>, <<Text("a")>>, <<File("a", "f"), Text("b")>>,
     <<File("a", "f"), File("b", "f")>>, <<File("a", "f"), File("b", "g")>>,
     <<File("a", "f"), File("b", BadName)>>, <<File("a", "")>>}

\* main.py:87: hasattr(value, "filename") and value.filename. A file field
\* sent without a file has the filename "".
IsUpload(field) == field.kind = "file" /\ field.value # ""

\* main.py:96: what a field that is no upload is passed on as: the string
\* of a text field, the UploadFile object of a file field without a name.
Scalar(field) ==
    IF field.kind = "text" THEN [kind |-> "text", value |-> field.value]
    ELSE [kind |-> "uploadfile"]

\* ------------------------------------------------------------- locals
\* op: the operation the thread is in, which is also whom get_widget_by_id
\* returns to: "generate", "get" (get_widget_endpoint), "increment" (a
\* direct call of increment_usage_count), "run" (run_widget_endpoint's own
\* read), "run_inc" (the increment run_widget_endpoint makes) and "list"
\* (get_widgets_endpoint).
IdleLocals ==
    [pc |-> "idle", op |-> "none", wid |-> 0, widget |-> None, gen |-> None,
     form |-> <<>>, idx |-> 1, inputs |-> <<>>, paths |-> <<>>,
     module |-> None, result |-> None, exc |-> "", called |-> None,
     filenames |-> <<>>, widgets |-> <<>>, snapshot |-> None]

Http(status, body) == [kind |-> "http", status |-> status, body |-> body]
Returned(value) == [kind |-> "return", value |-> value]
Raised(error) == [kind |-> "raise", error |-> error]

\* An operation's end: the response is built; sending it (respond) is the
\* operation's last step, and the model takes it before any other step.
Finish(p, r) == [th[p] EXCEPT !.pc = "end", !.result = r]
Ended(rec) == rec.pc = "end"
NoneEnding == \A q \in Procs : th[q].pc # "end"
IsOutput(r) == r.kind = "http" /\ r.status = 200

At(p, label) == th[p].pc = label

\* The loop runs one coroutine at a time; a pool thread runs when scheduled.
Scheduled(p) == sched = "threads" \/ cur = p

\* The history of the counts stored: a complete record for id now holds
\* widget.
Stored(h, id, widget) ==
    [h EXCEPT ![id] = IF widget.usage_count > @ THEN widget.usage_count
                      ELSE @]

\* Thread p takes one step, to the local state rec.
Step(p, rec) ==
    /\ NoneEnding
    /\ th' = [th EXCEPT ![p] = rec]
    /\ cur' = IF sched = "threads" THEN cur
              ELSE IF Ended(rec) \/ rec.pc = "r_await" THEN 0
              ELSE p
    /\ incReturned' = IF Ended(rec) /\ rec.op = "increment"
                         /\ rec.result.kind = "return"
                      THEN [incReturned EXCEPT ![rec.wid] = @ + 1]
                      ELSE incReturned
    /\ outputs' = IF Ended(rec) /\ rec.op \in {"run", "run_inc"}
                     /\ IsOutput(rec.result)
                  THEN [outputs EXCEPT ![rec.wid] = @ + 1]
                  ELSE outputs
    /\ sched' = sched

\* ------------------------------------------------- generation endpoint
\* What the Gemini call can come back with: an API failure, or JSON text,
\* which json.loads turns into a dict holding some of the keys or into a
\* list of strings.
Object(members) == [type |-> "object", members |-> members]
Array(items) == [type |-> "array", items |-> items]

FullOutputs ==
    {[name |-> "n1", category |-> "query", python_code |-> "echo",
      html_code |-> "h1"],
     [name |-> "n2", category |-> "poem", python_code |-> "raises",
      html_code |-> "h2"]}
Without(d, k) == [x \in (DOMAIN d) \ {k} |-> d[x]]
GeminiResponses ==
    {[kind |-> "error"]}
    \cup {[kind |-> "json", json |-> Object(d)] : d \in FullOutputs}
    \cup {[kind |-> "json", json |-> Object(Without(d, k))] :
            d \in {CHOOSE f \in FullOutputs : f.name = "n1"},
            k \in required_keys}
    \cup {[kind |-> "json", json |-> Array(items)] :
            items \in {<<"name">>,
                       <<"name", "category", "python_code", "html_code">>}}

\* Python's `key in parsed_json` (ai_integration.py:70): a key of a dict,
\* an element of a list.
Contains(json, key) ==
    IF json.type = "object" THEN key \in DOMAIN json.members
    ELSE \E i \in DOMAIN json.items : json.items[i] = key

\* ai_integration.get_widget_code_from_gemini: every failure inside it, a
\* failed key test included, leaves as ValueError (ai_integration.py:75-77).
get_widget_code_from_gemini(response) ==
    IF response.kind # "json"
    THEN [ok |-> FALSE, error |-> "ValueError"]
    ELSE IF ~(\A key \in required_keys : Contains(response.json, key))
    THEN [ok |-> FALSE, error |-> "ValueError"]
    ELSE [ok |-> TRUE, value |-> response.json]

\* models.WidgetCreate(**ai_output): `**` of a list is a TypeError;
\* pydantic's ValidationError for a missing field is a ValueError.
WidgetCreate(ai_output) ==
    IF ai_output.type # "object"
    THEN [ok |-> FALSE, error |-> "TypeError"]
    ELSE IF \A key \in required_keys : key \in DOMAIN ai_output.members
    THEN [ok |-> TRUE,
          value |-> [key \in required_keys |-> ai_output.members[key]]]
    ELSE [ok |-> FALSE, error |-> "ValueError"]

\* main.py:49-52: ValueError is the client's fault, anything else is not.
GenerateErrorStatus(error) == IF error = "ValueError" THEN 400 ELSE 500

NumCreated == Cardinality({<<id, i>> \in Ids \X (1..MaxCreates) :
                             i <= Len(created[id])})

generate_start(p) ==
    /\ At(p, "idle")
    /\ NumCreated + Cardinality({q \in Procs : th[q].op = "generate"})
         < MaxCreates
    /\ Step(p, [IdleLocals EXCEPT !.pc = "g_schema", !.op = "generate"])
    /\ UNCHANGED <<clock, files, created, highest, execVars>>

\* main.py:38 db.get_data_db_schema(): the data database is there or not.
generate_schema(p) ==
    /\ At(p, "g_schema")
    /\ \E available \in BOOLEAN :
         Step(p, IF available THEN [th[p] EXCEPT !.pc = "g_ai"]
                 ELSE Finish(p, Http(GenerateErrorStatus("ValueError"),
                                     [detail |-> "schema"])))
    /\ UNCHANGED <<clock, files, created, highest, execVars>>

\* main.py:41-42
generate_ai(p) ==
    /\ At(p, "g_ai")
    /\ \E response \in GeminiResponses :
         LET ai == get_widget_code_from_gemini(response)
             data == IF ai.ok THEN WidgetCreate(ai.value) ELSE ai
         IN Step(p, IF data.ok
                    THEN [th[p] EXCEPT !.pc = "cw_id", !.gen = response,
                                       !.widget = data.value]
                    ELSE [Finish(p, Http(GenerateErrorStatus(data.error),
                                         [detail |-> data.error]))
                            EXCEPT !.gen = response])
    /\ UNCHANGED <<clock, files, created, highest, execVars>>

\* db.py:32-38: the id is the clock's value, in milliseconds.
create_widget_id(p) ==
    /\ At(p, "cw_id")
    /\ Step(p, [th[p] EXCEPT !.pc = "cw_open", !.wid = clock,
                  !.widget = NewWidget(clock, clock, th[p].widget)])
    /\ UNCHANGED <<clock, files, created, highest, execVars>>

\* db.py:40-41: open(file_path, "w") creates or truncates the file.
create_widget_open(p) ==
    /\ At(p, "cw_open")
    /\ files' = [files EXCEPT ![th[p].wid] = EmptyFile]
    /\ Step(p, [th[p] EXCEPT !.pc = "cw_dump"])
    /\ UNCHANGED <<clock, created, highest, execVars>>

\* db.py:42-45 and main.py:46-48: the document is written, the file
\* closed, the new widget returned and sent as the response.
create_widget_dump(p) ==
    /\ At(p, "cw_dump")
    /\ files' = [files EXCEPT ![th[p].wid] = model_dump_json(th[p].widget)]
    /\ created' = [created EXCEPT ![th[p].wid] = Append(@, th[p].widget)]
    /\ highest' = Stored(highest, th[p].wid, th[p].widget)
    /\ Step(p, Finish(p, Http(200, th[p].widget)))
    /\ UNCHANGED <<clock, execVars>>

Tick ==
    /\ NoneEnding
    /\ clock < MaxClock
    /\ clock' = clock + 1
    /\ UNCHANGED <<files, th, cur, sched, created, highest, incReturned, outputs,
                   execVars>>

\* The response leaves; the thread is free for the next request.
respond(p) ==
    /\ At(p, "end")
    /\ th' = [th EXCEPT ![p] = IdleLocals]
    /\ UNCHANGED <<clock, files, cur, sched, created, highest, incReturned, outputs,
                   execVars>>

\* ------------------------------------------------------- store reads
\* main.py:60-62: get_widget_endpoint runs in a thread of the pool.
get_start(p) ==
    /\ At(p, "idle")
    /\ \E id \in Ids :
         Step(p, [IdleLocals EXCEPT !.pc = "gw_exists", !.op = "get",
                                    !.wid = id])
    /\ UNCHANGED <<clock, files, created, highest, execVars>>

IncInFlight(id) ==
    Cardinality({q \in Procs : /\ th[q].op = "increment"
                               /\ th[q].wid = id
                               /\ th[q].pc # "end"})

\* A direct caller of db.increment_usage_count (db.py:72).
increment_start(p) ==
    /\ At(p, "idle")
    /\ \E id \in Ids :
         /\ incReturned[id] + IncInFlight(id) < MaxIncs
         /\ Step(p, [IdleLocals EXCEPT !.pc = "gw_exists",
                                       !.op = "increment", !.wid = id])
    /\ UNCHANGED <<clock, files, created, highest, execVars>>

\* (mutant) increment_usage_count goes on without testing for None and
\* fails at widget.usage_count.
AfterNoneRaises(p) ==
    IF th[p].op = "increment" THEN Finish(p, Raised("AttributeError"))
    ELSE IF th[p].op = "run_inc"
    THEN [th[p] EXCEPT !.pc = "r_except", !.exc = "AttributeError"]
    ELSE Finish(p, Http(404, [detail |-> "not found"]))

\* (mutant) run_widget_endpoint goes on without testing for None.
AfterNoneProceeds(p) ==
    IF th[p].op = "increment" THEN Finish(p, Returned(None))
    ELSE IF th[p].op = "run_inc" THEN [th[p] EXCEPT !.pc = "r_return"]
    ELSE IF th[p].op = "run" THEN [th[p] EXCEPT !.pc = "r_tmp"]
    ELSE Finish(p, Http(404, [detail |-> "not found"]))

\* What the caller of get_widget_by_id does with None (db.py:50-51):
\* main.py:63-64 and main.py:74-75 answer 404, db.py:75-76 returns.
AfterNone(p) ==
    IF th[p].op = "increment" THEN Finish(p, Returned(None))
    ELSE IF th[p].op = "run_inc" THEN [th[p] EXCEPT !.pc = "r_return"]
    ELSE Finish(p, Http(404, [detail |-> "not found"]))

\* What becomes of an exception json.load raises in get_widget_by_id:
\* nothing catches it in get_widget_endpoint, in increment_usage_count or
\* at main.py:73 (the framework answers 500); main.py:102 catches the one
\* raised under main.py:99.
AfterReadError(p, error) ==
    IF th[p].op = "increment" THEN Finish(p, Raised(error))
    ELSE IF th[p].op = "run_inc"
    THEN [th[p] EXCEPT !.pc = "r_except", !.exc = error]
    ELSE Finish(p, Http(500, [detail |-> "Internal Server Error"]))

\* (mutant) the record is written back as it was read.
IncrementedUnchanged(widget) == widget

\* db.py:78: widget.usage_count += 1
Incremented(widget) == [widget EXCEPT !.usage_count = @ + 1]

\* (mutant) the increment made for an execution reuses the record the
\* request read when it started.
AfterReadReusesSnapshot(p, widget) ==
    IF th[p].op = "get" THEN Finish(p, Http(200, widget))
    ELSE IF th[p].op = "run"
    THEN [th[p] EXCEPT !.pc = "r_tmp", !.widget = widget,
                       !.snapshot = widget]
    ELSE IF th[p].op = "run_inc"
    THEN [th[p] EXCEPT !.pc = "iu_open",
                       !.widget = Incremented(th[p].snapshot)]
    ELSE [th[p] EXCEPT !.pc = "iu_open", !.widget = Incremented(widget)]

\* What the caller does with the widget read. run_widget_endpoint keeps
\* the record it read at main.py:73 (snapshot) to the end of the request;
\* increment_usage_count works on the record it reads itself (db.py:74).
AfterRead(p, widget) ==
    IF th[p].op = "get" THEN Finish(p, Http(200, widget))
    ELSE IF th[p].op = "run"
    THEN [th[p] EXCEPT !.pc = "r_tmp", !.widget = widget,
                       !.snapshot = widget]
    ELSE [th[p] EXCEPT !.pc = "iu_open", !.widget = Incremented(widget)]

\* db.py:47-54 read in one piece: what a call returns on the store as it is.
get_widget_by_id(id) ==
    IF ~path_exists(files[id]) THEN Returned(None)
    ELSE LET data == json_load(files[id])
         IN IF data.ok THEN Returned(data.widget) ELSE Raised(data.error)

\* db.py:49-51
get_widget_by_id_exists(p) ==
    /\ At(p, "gw_exists")
    /\ Scheduled(p)
    /\ Step(p, IF path_exists(files[th[p].wid])
               THEN [th[p] EXCEPT !.pc = "gw_read"]
               ELSE AfterNone(p))
    /\ UNCHANGED <<clock, files, created, highest, execVars>>

\* db.py:52-54
get_widget_by_id_read(p) ==
    /\ At(p, "gw_read")
    /\ Scheduled(p)
    /\ LET data == json_load(files[th[p].wid])
       IN Step(p, IF data.ok THEN AfterRead(p, data.widget)
                  ELSE AfterReadError(p, data.error))
    /\ UNCHANGED <<clock, files, created, highest, execVars>>

\* db.py:79-80: open(file_path, "w") truncates the record.
increment_usage_count_open(p) ==
    /\ At(p, "iu_open")
    /\ Scheduled(p)
    /\ files' = [files EXCEPT ![th[p].wid] = EmptyFile]
    /\ Step(p, [th[p] EXCEPT !.pc = "iu_dump"])
    /\ UNCHANGED <<clock, created, highest, execVars>>

\* db.py:81: the incremented record is written and the file closed.
increment_usage_count_dump(p) ==
    /\ At(p, "iu_dump")
    /\ Scheduled(p)
    /\ files' = [files EXCEPT ![th[p].wid] = model_dump_json(th[p].widget)]
    /\ highest' = Stored(highest, th[p].wid, th[p].widget)
    /\ Step(p, IF th[p].op = "increment" THEN Finish(p, Returned(None))
               ELSE [th[p] EXCEPT !.pc = "r_return"])
    /\ UNCHANGED <<clock, created, execVars>>

\* ------------------------------------------------------ get_all_widgets
\* main.py:53-56 and db.py:58-61: the names in the directory are read and
\* sorted once; the handler runs in a thread of the pool.
list_start(p) ==
    /\ At(p, "idle")
    /\ Step(p, [IdleLocals EXCEPT
                  !.pc = "l_read", !.op = "list",
                  !.filenames = SortedReverse({id \in Ids :
                                                path_exists(files[id])})])
    /\ UNCHANGED <<clock, files, created, highest, execVars>>

\* db.py:68: the exceptions one record may raise without ending the loop.
Skipped(error) == error \in {"JSONDecodeError", "TypeError"}

\* db.py:62-70, one file: a record that loads is appended, one that raises
\* a caught exception is skipped; any other exception leaves
\* get_all_widgets and the framework answers 500.
list_read(p) ==
    /\ At(p, "l_read")
    /\ LET me == th[p]
           data == json_load(files[me.filenames[me.idx]])
       IN Step(p, IF me.idx > Len(me.filenames)
                  THEN Finish(p, Http(200, me.widgets))
                  ELSE IF data.ok
                  THEN [me EXCEPT !.idx = @ + 1,
                                  !.widgets = Append(@, data.widget)]
                  ELSE IF Skipped(data.error)
                  THEN [me EXCEPT !.idx = @ + 1]
                  ELSE Finish(p, Http(500,
                                      [detail |-> "Internal Server Error"])))
    /\ UNCHANGED <<clock, files, created, highest, execVars>>

\* ---------------------------------------------------- widget_runner.py
\* The module object an invocation makes (module_from_spec): the registry
\* holds a reference to it, the invocation holds its own.
Module(p) == [kind |-> "module", owner |-> p]

\* spec.loader.exec_module(widget_module): compiling and running the bundle.
exec_module(code) ==
    IF code = "syntaxerror" THEN [ok |-> FALSE, error |-> "SyntaxError"]
    ELSE IF code = "selfdestruct" THEN [ok |-> FALSE, error |-> "LoadError"]
    ELSE [ok |-> TRUE, code |-> code]

\* What running the bundle's top level does to the registry entry and to
\* the bundle file.
LoadEffect(code, content) == IF code = "selfdestruct" THEN NoFile ELSE content
LoadEvicts(code, entry) == IF code = "selfdestruct" THEN None ELSE entry

hasattr_run_widget(code) == code # "noentry"

\* run_function(inputs), by the bundle loaded.
run_widget(code, inputs) ==
    IF code = "raises" THEN [ok |-> FALSE, error |-> "WidgetError"]
    ELSE IF code = "noresults"
    THEN [ok |-> TRUE,
          value |-> [kind |-> "str", text |-> <<"No results found.">>]]
    ELSE IF code = "image"
    THEN [ok |-> TRUE,
          value |-> [kind |-> "str",
                     text |-> <<"data:image/png;base64,", "payload">>]]
    ELSE [ok |-> TRUE,
          value |-> [kind |-> "str", text |-> <<"echo", inputs>>]]

\* (mutant) the response is built with repr(result).
py_strRepr(value) == [kind |-> "str", text |-> <<"repr", value>>]

\* str(result), main.py:101
py_str(value) ==
    IF value.kind = "str" THEN value
    ELSE [kind |-> "str", text |-> <<"repr", value>>]

\* (mutant) execute_widget_code logs the exception and returns.
AfterExecuteSwallows(p, exc) ==
    [th[p] EXCEPT !.pc = "gw_exists", !.op = "run_inc"]

\* widget_runner.py:34-37 re-raises: what execute_widget_code leaves with
\* decides main.py:99-107.
AfterExecute(p, exc) ==
    IF exc # "" THEN [th[p] EXCEPT !.pc = "r_except", !.exc = exc]
    ELSE [th[p] EXCEPT !.pc = "gw_exists", !.op = "run_inc"]

\* widget_runner.py:15
execute_check(p) ==
    /\ At(p, "x_check")
    /\ Scheduled(p)
    /\ Step(p, [th[p] EXCEPT !.pc = IF sys_modules # None THEN "x_del"
                                    ELSE "x_load"])
    /\ UNCHANGED <<clock, files, created, highest, execVars>>

\* widget_runner.py:16: del raises KeyError when the entry is gone; the
\* call is inside main.py's try.
execute_del(p) ==
    /\ At(p, "x_del")
    /\ Scheduled(p)
    /\ sys_modules' = None
    /\ Step(p, IF sys_modules = None
               THEN [th[p] EXCEPT !.pc = "r_except", !.exc = "KeyError"]
               ELSE [th[p] EXCEPT !.pc = "x_load"])
    /\ UNCHANGED <<clock, files, created, highest, bundles, uploads, nreq>>

\* widget_runner.py:19-24: the module is made and registered under the
\* static name.
execute_load(p) ==
    /\ At(p, "x_load")
    /\ Scheduled(p)
    /\ sys_modules' = Module(p)
    /\ Step(p, [th[p] EXCEPT !.pc = "x_exec", !.module = Module(p)])
    /\ UNCHANGED <<clock, files, created, highest, bundles, uploads, nreq>>

\* widget_runner.py:26: the bundle file of this invocation is read and run.
execute_exec(p) ==
    /\ At(p, "x_exec")
    /\ Scheduled(p)
    /\ LET loaded == exec_module(bundles[p].code)
       IN Step(p, IF loaded.ok
                  THEN [th[p] EXCEPT !.pc = "x_call",
                          !.module = [kind |-> "module", owner |-> p,
                                      code |-> loaded.code]]
                  ELSE [th[p] EXCEPT !.pc = "x_fin", !.exc = loaded.error])
    /\ bundles' = [bundles EXCEPT ![p] = LoadEffect(@.code, @)]
    /\ sys_modules' = LoadEvicts(bundles[p].code, sys_modules)
    /\ UNCHANGED <<clock, files, created, highest, uploads, nreq>>

\* widget_runner.py:28-33: the entry point is looked up on the invocation's
\* own module object and called.
execute_call(p) ==
    /\ At(p, "x_call")
    /\ Scheduled(p)
    /\ LET code == th[p].module.code
           out == run_widget(code, th[p].inputs)
           me == [th[p] EXCEPT !.pc = "x_fin"]
       IN Step(p, IF ~hasattr_run_widget(code)
                  THEN [me EXCEPT !.exc = "AttributeError"]
                  ELSE IF out.ok
                  THEN [me EXCEPT !.result = out.value,
                          !.called = [code |-> code, inputs |-> th[p].inputs]]
                  ELSE [me EXCEPT !.exc = out.error,
                          !.called = [code |-> code, inputs |-> th[p].inputs]])
    /\ UNCHANGED <<clock, files, created, highest, execVars>>

\* (mutant) the finally clause leaves the entry in the registry.
ModuleRegisteredNever(entry) == FALSE

\* (mutant) the finally clause deletes the entry without testing for it.
ModuleRegisteredAssumed(entry) == TRUE

\* widget_runner.py:39: if module_name in sys.modules
ModuleRegistered(entry) == entry # None

\* widget_runner.py:38-39
execute_finally(p) ==
    /\ At(p, "x_fin")
    /\ Scheduled(p)
    /\ Step(p, IF ModuleRegistered(sys_modules)
               THEN [th[p] EXCEPT !.pc = "x_fin_del"]
               ELSE AfterExecute(p, th[p].exc))
    /\ UNCHANGED <<clock, files, created, highest, execVars>>

\* The exception under way after `del sys.modules[module_name]`: a
\* KeyError, raised when the entry is gone, replaces the result or the
\* exception of the try block.
Evicted(entry, exc) == IF entry = None THEN "KeyError" ELSE exc

\* widget_runner.py:40
execute_finally_del(p) ==
    /\ At(p, "x_fin_del")
    /\ Scheduled(p)
    /\ sys_modules' = None
    /\ Step(p, AfterExecute(p, Evicted(sys_modules, th[p].exc)))
    /\ UNCHANGED <<clock, files, created, highest, bundles, uploads, nreq>>

\* -------------------------------------------- main.py: POST /run_widget
\* main.py:68-73. On the event loop a handler starts when the loop is free.
run_start(p) ==
    /\ At(p, "idle")
    /\ sched = "loop" => cur = 0
    /\ nreq < MaxRequests
    /\ nreq' = nreq + 1
    /\ \E id \in Ids :
         Step(p, [IdleLocals EXCEPT !.pc = "gw_exists", !.op = "run",
                                    !.wid = id])
    /\ UNCHANGED <<clock, files, created, highest, sys_modules, bundles, uploads>>

\* main.py:81-83: the bundle is written to a temporary file of its own;
\* then the handler awaits the form (main.py:85) and the loop is free.
run_tempfile(p) ==
    /\ At(p, "r_tmp")
    /\ Scheduled(p)
    /\ bundles' = [bundles EXCEPT ![p] =
                     [kind |-> "file", code |-> th[p].widget.python_code]]
    /\ Step(p, [th[p] EXCEPT !.pc = "r_await"])
    /\ UNCHANGED <<clock, files, created, highest, sys_modules, uploads, nreq>>

\* main.py:85: the form arrives, or parsing the request body fails.
run_form(p) ==
    /\ At(p, "r_await")
    /\ sched = "loop" => cur = 0
    /\ \/ \E form \in Forms :
            Step(p, [th[p] EXCEPT !.pc = "m_field", !.form = form])
       \/ Step(p, [th[p] EXCEPT !.pc = "r_except", !.exc = "FormError"])
    /\ UNCHANGED <<clock, files, created, highest, execVars>>

Put(inputs, key, value) ==
    [k \in (DOMAIN inputs) \cup {key} |->
       IF k = key THEN value ELSE inputs[k]]

\* (mutant) the mapping carries the bytes of the upload.
UploadBytes(filename) == [kind |-> "bytes", name |-> filename]

\* main.py:90 and main.py:94
UploadPath(filename) == [kind |-> "path", name |-> filename]

\* main.py:86-96, one field: a scalar is passed on; a file's path is
\* recorded (main.py:91) and the file opened for writing (main.py:92).
marshal_field(p) ==
    /\ At(p, "m_field")
    /\ Scheduled(p)
    /\ LET me == th[p]
           field == me.form[me.idx]
       IN IF me.idx > Len(me.form)
          THEN /\ Step(p, [me EXCEPT !.pc = "x_check"])
               /\ uploads' = uploads
          ELSE IF ~IsUpload(field)
          THEN /\ Step(p, [me EXCEPT !.idx = @ + 1,
                             !.inputs = Put(@, field.key, Scalar(field))])
               /\ uploads' = uploads
          ELSE IF field.value \in Filenames
          THEN /\ Step(p, [me EXCEPT !.pc = "m_write",
                             !.paths = Append(@, field.value)])
               /\ uploads' = [uploads EXCEPT ![field.value] =
                                [kind |-> "empty", by |-> p]]
          ELSE /\ Step(p, [me EXCEPT !.pc = "r_except",
                             !.paths = Append(@, field.value),
                             !.exc = "FileNotFoundError"])
               /\ uploads' = uploads
    /\ UNCHANGED <<clock, files, created, highest, sys_modules, bundles, nreq>>

\* main.py:93-94: the upload's bytes are copied and the file closed.
marshal_write(p) ==
    /\ At(p, "m_write")
    /\ Scheduled(p)
    /\ LET me == th[p]
           field == me.form[me.idx]
       IN /\ uploads' = [uploads EXCEPT ![field.value] =
                           [kind |-> "bytes", by |-> p, key |-> field.key]]
          /\ Step(p, [me EXCEPT !.pc = "m_field", !.idx = @ + 1,
                        !.inputs = Put(@, field.key,
                                       UploadPath(field.value))])
    /\ UNCHANGED <<clock, files, created, highest, sys_modules, bundles, nreq>>

\* The mapping main.py:86-96 builds from the first n fields of a form.
RECURSIVE Marshal(_, _)
Marshal(form, n) ==
    IF n = 0 THEN <<>>
    ELSE Put(Marshal(form, n - 1), form[n].key,
             IF IsUpload(form[n]) THEN UploadPath(form[n].value)
             ELSE Scalar(form[n]))

\* main.py:101
OutputResponse(result) == Http(200, [output |-> py_str(result)])

\* main.py:107
ErrorResponse(exc) ==
    Http(500, [error |-> <<"An error occurred during execution: ", exc>>])

\* main.py:101: the response is built; the finally clause runs next.
run_return(p) ==
    /\ At(p, "r_return")
    /\ Scheduled(p)
    /\ Step(p, [th[p] EXCEPT !.pc = "f_bundle",
                             !.result = OutputResponse(th[p].result)])
    /\ UNCHANGED <<clock, files, created, highest, execVars>>

\* main.py:102-107
run_except(p) ==
    /\ At(p, "r_except")
    /\ Scheduled(p)
    /\ Step(p, [th[p] EXCEPT !.pc = "f_bundle",
                             !.result = ErrorResponse(th[p].exc)])
    /\ UNCHANGED <<clock, files, created, highest, execVars>>

\* (mutant) the temporary file is left where it is.
RemoveBundleKept(content) == content

\* main.py:110-111: the temporary file is the invocation's own.
RemoveBundle(content) == IF path_exists(content) THEN NoFile ELSE content

finally_bundle(p) ==
    /\ At(p, "f_bundle")
    /\ Scheduled(p)
    /\ bundles' = [bundles EXCEPT ![p] = RemoveBundle(@)]
    /\ Step(p, [th[p] EXCEPT !.pc = "f_uploads", !.idx = 1])
    /\ UNCHANGED <<clock, files, created, highest, sys_modules, uploads, nreq>>

\* (mutant) the cleanup removes each recorded path without testing for it.
UploadExistsAssumed(filename) == filename \in Filenames

\* main.py:114: os.path.exists(path)
UploadExists(filename) ==
    filename \in Filenames /\ path_exists(uploads[filename])

\* (mutant) the uploads are cleaned only after a success.
NextUploadOnSuccess(p) ==
    IF th[p].idx > Len(th[p].paths) \/ th[p].exc # ""
    THEN Finish(p, th[p].result)
    ELSE IF UploadExists(th[p].paths[th[p].idx])
    THEN [th[p] EXCEPT !.pc = "f_remove"]
    ELSE [th[p] EXCEPT !.idx = @ + 1]

\* main.py:113-114: the next recorded path, if any, is tested.
NextUpload(p) ==
    IF th[p].idx > Len(th[p].paths) THEN Finish(p, th[p].result)
    ELSE IF UploadExists(th[p].paths[th[p].idx])
    THEN [th[p] EXCEPT !.pc = "f_remove"]
    ELSE [th[p] EXCEPT !.idx = @ + 1]

finally_uploads(p) ==
    /\ At(p, "f_uploads")
    /\ Scheduled(p)
    /\ Step(p, NextUpload(p))
    /\ UNCHANGED <<clock, files, created, highest, execVars>>

\* main.py:115: os.remove raises when the file is gone by now; nothing
\* catches that, and the framework answers 500.
finally_remove(p) ==
    /\ At(p, "f_remove")
    /\ Scheduled(p)
    /\ LET filename == th[p].paths[th[p].idx]
       IN IF UploadExists(filename)
          THEN /\ uploads' = [uploads EXCEPT ![filename] = NoFile]
               /\ Step(p, [th[p] EXCEPT !.pc = "f_uploads", !.idx = @ + 1])
          ELSE /\ uploads' = uploads
               /\ Step(p, Finish(p, Http(500,
                                   [detail |-> "Internal Server Error"])))
    /\ UNCHANGED <<clock, files, created, highest, sys_modules, bundles, nreq>>

\* ------------------------------------------------------ Spec: the store
\* A widget stored by an earlier run: its id is below every clock value.
StoredWidget ==
    NewWidget(0, 0, [name |-> "n0", category |-> "query",
                     python_code |-> "echo", html_code |-> "h0"])

\* The counts the records hold when the server starts.
HighestOf(dir) ==
    [id \in Ids |-> IF dir[id].kind = "doc" THEN dir[id].doc.usage_count
                    ELSE 0]

InitCommon ==
    /\ th = [p \in Procs |-> IdleLocals]
    /\ sys_modules = None
    /\ bundles = [p \in Procs |-> NoFile]
    /\ uploads = [f \in Filenames |-> NoFile]
    /\ cur = 0
    /\ created = [id \in Ids |-> <<>>]
    /\ incReturned = [id \in Ids |-> 0]
    /\ nreq = 0
    /\ outputs = [id \in Ids |-> 0]

Init ==
    /\ InitCommon
    /\ clock = 1
    /\ files = [id \in Ids |-> IF id = 0 THEN model_dump_json(StoredWidget)
                               ELSE NoFile]
    /\ sched = "threads"
    /\ highest = HighestOf(files)

Next ==
    \/ Tick
    \/ \E p \in Procs :
         \/ generate_start(p)
         \/ generate_schema(p)
         \/ generate_ai(p)
         \/ create_widget_id(p)
         \/ create_widget_open(p)
         \/ create_widget_dump(p)
         \/ get_start(p)
         \/ increment_start(p)
         \/ get_widget_by_id_exists(p)
         \/ get_widget_by_id_read(p)
         \/ increment_usage_count_open(p)
         \/ increment_usage_count_dump(p)
         \/ respond(p)

Spec == Init /\ [][Next]_vars

\* The generation endpoint alone: concurrent POST /generate_widget.
NextGen ==
    \/ Tick
    \/ \E p \in Procs :
         \/ generate_start(p)
         \/ generate_schema(p)
         \/ generate_ai(p)
         \/ create_widget_id(p)
         \/ create_widget_open(p)
         \/ create_widget_dump(p)
         \/ respond(p)

SpecGen == Init /\ [][NextGen]_vars

\* ------------------------------------------- execution requests
\* The store holds two widgets, created earlier; no record has id 0.
ExecWidget(id, code) ==
    NewWidget(id, id, [name |-> "w", category |-> "query",
                       python_code |-> code, html_code |-> "h"])

InitWidgets(codes1, codes2) ==
    \E c1 \in codes1, c2 \in codes2 :
       files = [id \in Ids |->
                  IF id = 1 THEN model_dump_json(ExecWidget(1, c1))
                  ELSE IF id = 2 THEN model_dump_json(ExecWidget(2, c2))
                  ELSE NoFile]

InitExec ==
    /\ InitCommon
    /\ clock = MaxClock
    /\ InitWidgets(Codes, {"noresults"})
    /\ sched = "threads"
    /\ highest = HighestOf(files)

InitLoop ==
    /\ InitCommon
    /\ clock = MaxClock
    /\ InitWidgets(Codes, Codes)
    /\ sched = "loop"
    /\ highest = HighestOf(files)

\* Every step of run_widget_endpoint but widget_runner.py:16.
RunStep(p) ==
       \/ run_start(p)
       \/ get_widget_by_id_exists(p)
       \/ get_widget_by_id_read(p)
       \/ run_tempfile(p)
       \/ run_form(p)
       \/ marshal_field(p)
       \/ marshal_write(p)
       \/ execute_check(p)
       \/ execute_load(p)
       \/ execute_exec(p)
       \/ execute_call(p)
       \/ execute_finally(p)
       \/ execute_finally_del(p)
       \/ increment_usage_count_open(p)
       \/ increment_usage_count_dump(p)
       \/ run_return(p)
       \/ run_except(p)
       \/ finally_bundle(p)
       \/ finally_uploads(p)
       \/ finally_remove(p)
       \/ respond(p)

NextExec == \E p \in Procs : RunStep(p) \/ execute_del(p)

\* One thread per request: the steps interleave freely.
SpecExec == InitExec /\ [][NextExec]_vars

\* On the event loop execute_widget_code runs without interleaving, so it
\* finds no entry to delete at widget_runner.py:15 (LoopFindsNoStaleEntry)
\* and widget_runner.py:16 never runs.
NextLoop == \E p \in Procs : RunStep(p)

\* One event loop: a handler runs from its start to the await of the form,
\* and from the form's arrival to its end, without interleaving.
SpecLoop == InitLoop /\ [][NextLoop]_vars

LoopFindsNoStaleEntry == \A p \in Procs : th[p].pc # "x_del"

\* ------------------------------------------------- the store's readers
\* The directory holds records of earlier runs, some of them not written
\* by this program.
CorruptFiles(id) == {Garbage, ArrayFile, PartialDoc(id)}

InitList ==
    /\ InitCommon
    /\ clock = MaxClock
    /\ files \in [Ids -> {NoFile}
                         \cup {model_dump_json(ExecWidget(id, "echo")) :
                                 id \in Ids}
                         \cup UNION {CorruptFiles(id) : id \in Ids}]
    /\ \A id \in Ids :
          /\ files[id].kind \in {"doc", "partial"} => files[id].doc.id = id
          /\ id < MaxClock => files[id].kind \in {"doc", "nofile"}
    /\ sched = "threads"
    /\ highest = HighestOf(files)

\* GET /get_widgets and GET /get_widget/{id} beside callers of
\* increment_usage_count.
NextList ==
    \E p \in Procs :
       \/ list_start(p)
       \/ list_read(p)
       \/ get_start(p)
       \/ increment_start(p)
       \/ get_widget_by_id_exists(p)
       \/ get_widget_by_id_read(p)
       \/ increment_usage_count_open(p)
       \/ increment_usage_count_dump(p)
       \/ respond(p)

SpecList == InitList /\ [][NextList]_vars

\* Callers of increment_usage_count alone, on the stored id and on ids
\* no file has.
NextInc ==
    \E p \in Procs :
       \/ increment_start(p)
       \/ get_widget_by_id_exists(p)
       \/ get_widget_by_id_read(p)
       \/ increment_usage_count_open(p)
       \/ increment_usage_count_dump(p)
       \/ respond(p)

SpecInc == Init /\ [][NextInc]_vars

\* ===================================================== the claims
Running == {p \in Procs : th[p].op \in {"run", "run_inc"}}
UsageCount(id) == files[id].doc.usage_count
HasAllKeys(json) ==
    json.type = "object" /\ required_keys \subseteq DOMAIN json.members
Incomplete(gen) == gen.kind = "json" /\ ~HasAllKeys(gen.json)

\* C1 (as claimed): once every increment_usage_count call on the stored
\* widget has returned, its usage_count is higher by the number of calls
\* that returned.
C1_NoLostUpdate ==
    IncInFlight(StoredWidget.id) = 0 =>
       /\ files[StoredWidget.id].kind = "doc"
       /\ UsageCount(StoredWidget.id)
            = StoredWidget.usage_count + incReturned[StoredWidget.id]

\* C2 (as claimed): while the requests in flight are for different widgets,
\* each invocation has its own unit under the registry name from load to
\* unload, no eviction fails, the entry point called is that of its own
\* bundle on its own input mapping, and the response carries its result.
C2_NoInterference ==
    (\A p, q \in Running : p # q => th[p].wid # th[q].wid) =>
       \A p \in Running :
          /\ th[p].pc \in {"x_exec", "x_call"} =>
                sys_modules.kind = "module" /\ sys_modules.owner = p
          /\ th[p].exc # "KeyError"
          /\ th[p].called # None =>
                /\ th[p].called.code = th[p].widget.python_code
                /\ th[p].called.inputs = Marshal(th[p].form, Len(th[p].form))
          /\ (At(p, "end") /\ th[p].called # None
                /\ run_widget(th[p].called.code, th[p].called.inputs).ok) =>
                th[p].result = OutputResponse(
                    run_widget(th[p].widget.python_code,
                               Marshal(th[p].form, Len(th[p].form))).value)

\* C3: when the response of an execution request is produced, on whatever
\* path, nothing is registered under the module name and the temporary
\* bundle file of the invocation is gone.
C3_CleanupOnEveryExit ==
    \A p \in Running :
       At(p, "end") => bundles[p] = NoFile /\ sys_modules = None

\* C3 witness: an entry point raised, and the response is ready.
C3_Witness ==
    \E p \in Running :
       /\ At(p, "end")
       /\ th[p].exc = "WidgetError"
       /\ th[p].module # None
       /\ th[p].result.status = 500

\* C4: when an execution request ends, no upload file holds bytes that
\* the request wrote, whether it succeeded or failed.
C4_UploadsRemoved ==
    \A p \in Running :
       At(p, "end") =>
          \A f \in Filenames :
             ~(path_exists(uploads[f]) /\ uploads[f].by = p)

\* C4 witness: the second file field could not be opened after the first
\* was written, and the request has ended.
C4_Witness ==
    \E p \in Running :
       /\ At(p, "end")
       /\ th[p].exc = "FileNotFoundError"
       /\ Len(th[p].paths) = 2
       /\ th[p].paths[1] \in Filenames

\* C5: the stored usage_count of a widget is the number of output
\* responses given for it, plus the requests that have written their
\* increment and not yet answered; error responses leave it alone.
AfterIncrement(p) ==
    /\ th[p].op = "run_inc"
    /\ th[p].pc \in {"r_return", "f_bundle", "f_uploads", "f_remove"}
C5_UsageCountsOutputs ==
    \A id \in Ids :
       files[id].kind = "doc" =>
          UsageCount(id) = outputs[id]
             + Cardinality({p \in Procs : AfterIncrement(p)
                                            /\ th[p].wid = id})

\* C5 witness: a request ends in an error after an earlier request for the
\* same widget was answered with an output.
C5_Witness ==
    \E p \in Running :
       /\ At(p, "end")
       /\ th[p].result.status = 500
       /\ outputs[th[p].wid] = 1
       /\ UsageCount(th[p].wid) = 1

\* C6 (as claimed): no two create_widget calls return the same id.
C6_IdsUnique == \A id \in Ids : Len(created[id]) <= 1

\* C7 (as claimed): until an increment is called on it, get_widget_by_id
\* returns for every created widget the value create_widget returned.
C7_RoundTrip ==
    \A id \in Ids :
       (incReturned[id] = 0 /\ IncInFlight(id) = 0) =>
          \A i \in 1..Len(created[id]) :
             get_widget_by_id(id) = Returned(created[id][i])

\* C8: every step of an execution request for an id with no record leaves
\* the store, the bundle files, the upload files and the module registry
\* as they are, and the request's only step after its start answers 404.
C8_NotFoundMutatesNothing ==
    [][\A p \in Procs :
         (th'[p] # th[p] /\ th'[p].op = "run"
            /\ ~path_exists(files[th'[p].wid])) =>
            /\ files' = files
            /\ bundles' = bundles
            /\ uploads' = uploads
            /\ sys_modules' = sys_modules
            /\ th'[p].pc \in {"gw_exists", "end"}
            /\ th'[p].pc = "end" =>
                  /\ th'[p].result.kind = "http"
                  /\ th'[p].result.status = 404]_vars

\* C8 witness: a request for an id with no record has been answered 404.
C8_Witness ==
    \E p \in Procs :
       /\ At(p, "end")
       /\ th[p].op = "run"
       /\ ~path_exists(files[th[p].wid])
       /\ th[p].result.status = 404

\* C9: a request for a widget whose bundle does not load, has no
\* run_widget or raises in it is answered with status 500, and once the
\* bundle was handed to the loader the body carries the message of the
\* exception that loading or calling raised.
WidgetFailure(code) ==
    IF ~exec_module(code).ok THEN exec_module(code).error
    ELSE IF ~hasattr_run_widget(code) THEN "AttributeError"
    ELSE IF ~run_widget(code, <<>>).ok THEN run_widget(code, <<>>).error
    ELSE ""
C9_FailuresAreErrors ==
    \A p \in Running :
       (At(p, "end") /\ th[p].widget # None
          /\ WidgetFailure(th[p].widget.python_code) # "") =>
          /\ th[p].result.status = 500
          /\ th[p].module # None =>
                th[p].result
                  = ErrorResponse(WidgetFailure(th[p].widget.python_code))

\* C9 witness: a bundle without run_widget was loaded and the error
\* response is ready.
C9_Witness ==
    \E p \in Running :
       /\ At(p, "end")
       /\ th[p].widget # None
       /\ th[p].widget.python_code = "noentry"
       /\ th[p].result = ErrorResponse("AttributeError")

\* C10 (as claimed): the step that receives a generation result lacking a
\* required key ends the request with status 400 and changes neither the
\* widget files nor the record of created widgets.
C10_IncompleteNeverPersisted ==
    [][\A p \in Procs :
         (th'[p] # th[p] /\ Incomplete(th'[p].gen)) =>
            /\ th'[p].pc = "end"
            /\ th'[p].result.kind = "http"
            /\ th'[p].result.status = 400
            /\ files' = files
            /\ created' = created]_vars

\* No increment_usage_count call has begun: the directory is as it was
\* when the server started.
Quiet == \A id \in Ids : incReturned[id] = 0 /\ IncInFlight(id) = 0
Listing == {p \in Procs : th[p].op = "list" /\ At(p, "end")}

\* C11 (as claimed): a listing made while nothing rewrites a record
\* returns normally, whatever corrupt records the directory holds, and its
\* result holds every record that is a valid widget document.
C11_ListingSkipsCorrupt ==
    \A p \in Listing :
       Quiet =>
          /\ th[p].result.status = 200
          /\ \A id \in Ids :
                files[id].kind = "doc" =>
                   \E i \in DOMAIN th[p].result.body :
                      th[p].result.body[i].id = id

\* C12 (as claimed): in the sequence a listing returns, a widget with a
\* larger id stands before every widget with a smaller id.
C12_NewestFirst ==
    \A p \in Listing :
       th[p].result.status = 200 =>
          \A i, j \in DOMAIN th[p].result.body :
             i < j => th[p].result.body[i].id > th[p].result.body[j].id

\* C13 (as claimed): the usage_count of a complete stored record is never
\* below a count stored under that id before.
C13_CountNeverLowered ==
    \A id \in Ids :
       files[id].kind = "doc" => UsageCount(id) >= highest[id]

\* The fields of a widget that are set once.
Immutable(w) ==
    [id |-> w.id, name |-> w.name, category |-> w.category,
     python_code |-> w.python_code, html_code |-> w.html_code,
     creation_date |-> w.creation_date]

\* C14 (as claimed): whenever an id holds a complete record, its name,
\* category, code, presentation and creation time are those of every
\* widget create_widget returned under that id, and those of the record the
\* server started with.
C14_ImmutableButCount ==
    \A id \in Ids :
       files[id].kind = "doc" =>
          LET stored == Immutable(json_load(files[id]).widget)
          IN /\ \A i \in 1..Len(created[id]) :
                   stored = Immutable(created[id][i])
             /\ id = StoredWidget.id => stored = Immutable(StoredWidget)

\* ai_integration.py:60: the categories the prompt asks Gemini to choose
\* from.
Categories == {"query", "numerical", "graphs", "image", "records"}

\* C15 (as claimed): every complete record in the store has one of the
\* five categories.
C15_CategoryEnumerated ==
    \A id \in Ids :
       files[id].kind = "doc" => files[id].doc.category \in Categories

\* The invocation is between marshaling a field and the end of
\* execute_widget_code.
Executing(p) ==
    th[p].pc \in {"m_field", "m_write", "x_check", "x_del", "x_load",
                  "x_exec", "x_call", "x_fin", "x_fin_del"}

\* The upload file an input path names exists, is closed and holds bytes
\* that invocation p uploaded.
ValidPath(p, path) ==
    uploads[path.name].kind = "bytes" /\ uploads[path.name].by = p

\* C16 (as claimed): from the moment a path is placed in the input mapping
\* until execute_widget_code has ended, the file it names holds bytes of
\* that invocation (a file the invocation itself is writing again under
\* the same name is left out), whatever other invocations do.
C16_UploadPathsStayValid ==
    \A p \in Procs :
       Executing(p) =>
          \A key \in DOMAIN th[p].inputs :
             (/\ th[p].inputs[key].kind = "path"
              /\ ~(/\ th[p].pc = "m_write"
                   /\ th[p].form[th[p].idx].value = th[p].inputs[key].name))
                => ValidPath(p, th[p].inputs[key])

\* The load of p's bundle was attempted and failed.
LoadFailed(p) ==
    /\ th[p].op = "run"
    /\ th[p].module # None
    /\ ~exec_module(th[p].widget.python_code).ok
    /\ th[p].pc \in {"x_fin", "x_fin_del", "r_except", "f_bundle",
                     "f_uploads", "f_remove", "end"}

C18_IncrementMissingIsNoOp ==
    [][\A p \in Procs :
         (/\ th[p].op = "increment"
          /\ th[p].pc = "gw_exists"
          /\ ~path_exists(files[th[p].wid])
          /\ th'[p] # th[p]) =>
            /\ th'[p].pc = "end"
            /\ th'[p].result = Returned(None)
            /\ files' = files]_vars

\* C18 witness: increment_usage_count has returned MaxIncs times for an id
\* that has no file, and the id has none still.
C18_Witness ==
    \E id \in Ids :
       /\ incReturned[id] = MaxIncs
       /\ files[id] = NoFile
       /\ highest[id] = 0

\* C19: the output of a success response is the string the entry point
\* returned for the invocation's inputs; "No results found." and the
\* data:image/png;base64 text come out as they are.
C19_OutputIsTheReturnedString ==
    \A p \in Running :
       (At(p, "end") /\ IsOutput(th[p].result)) =>
          LET code == th[p].widget.python_code
              returned == run_widget(code, th[p].inputs).value
          IN /\ th[p].result.body = [output |-> returned]
             /\ code = "noresults" =>
                   th[p].result.body.output.text = <<"No results found.">>
             /\ code = "image" =>
                   th[p].result.body.output.text
                     = <<"data:image/png;base64,", "payload">>

\* C19 witness: the image widget has run and its output response is
\* ready.
C19_Witness ==
    \E p \in Running :
       /\ At(p, "end")
       /\ IsOutput(th[p].result)
       /\ th[p].widget.python_code = "image"

\* C20 (as claimed): a get_widget_by_id or get_all_widgets call never
\* reads a record file that an increment_usage_count call has opened for
\* writing and not yet written.
C20_RewriteIsAtomic ==
    [][\A p \in Procs :
         th'[p] # th[p] =>
            /\ (th[p].op = "get" /\ th[p].pc = "gw_read") =>
                  files[th[p].wid] # EmptyFile
            /\ (th[p].op = "list" /\ th[p].pc = "l_read"
                   /\ th[p].idx <= Len(th[p].filenames)) =>
                  files[th[p].filenames[th[p].idx]] # EmptyFile]_vars

\* The marshaling loop of p has run through the whole form.
Marshaled(p) == th[p].op = "run" /\ th[p].pc = "x_check"

\* The last field of form that uploads the file named filename.
LastUpload(form, filename) ==
    CHOOSE i \in DOMAIN form :
       /\ IsUpload(form[i]) /\ form[i].value = filename
       /\ \A j \in DOMAIN form :
             (IsUpload(form[j]) /\ form[j].value = filename) => j <= i

\* C21: when the marshaling of a request is complete, the mapping has
\* exactly the keys of the form, a text field maps to its value, a file
\* field with a filename maps to the path uploads/<filename>, and the file
\* at that path holds the bytes of the last field uploaded under that
\* name.
C21_MarshalFlatMapping ==
    \A p \in Procs :
       Marshaled(p) =>
          LET form == th[p].form
              inputs == th[p].inputs
          IN /\ DOMAIN inputs = {form[i].key : i \in DOMAIN form}
             /\ \A i \in DOMAIN form :
                   /\ form[i].kind = "text" =>
                         inputs[form[i].key]
                           = [kind |-> "text", value |-> form[i].value]
                   /\ IsUpload(form[i]) =>
                         /\ inputs[form[i].key]
                              = [kind |-> "path", name |-> form[i].value]
                         /\ uploads[form[i].value]
                              = [kind |-> "bytes", by |-> p,
                                 key |-> form[LastUpload(form,
                                                         form[i].value)].key]

\* C21 witness: a form with two uploads of the same filename has been
\* marshaled, and the file holds the bytes of the second.
C21_Witness ==
    \E p \in Procs :
       /\ Marshaled(p)
       /\ th[p].form = <<File("a", "f"), File("b", "f")>>
       /\ uploads["f"].key = "b"

\* Request p is writing the increment of its execution.
WritingIncrement(p) ==
    th[p].op = "run_inc" /\ th[p].pc \in {"iu_open", "iu_dump"}
Quiescent(id) == \A p \in Running : th[p].wid # id

\* C22: on the event loop the count an execution request writes is one
\* more than the count stored, whatever the record held when the request
\* started, and once no request for a widget is in flight its usage_count
\* has grown by the number of output responses given for it.
C22_LoopIncrementRereads ==
    \A id \in Ids :
       /\ \A p \in Procs :
             (WritingIncrement(p) /\ th[p].wid = id) =>
                th[p].widget.usage_count = highest[id] + 1
       /\ (Quiescent(id) /\ files[id].kind = "doc") =>
             UsageCount(id) = ExecWidget(id, "echo").usage_count + outputs[id]

\* C22 witness: a request that read count 0 when it started writes 2,
\* because an overlapping request for the same widget finished first.
C22_Witness ==
    \E p \in Procs :
       /\ WritingIncrement(p)
       /\ th[p].snapshot.usage_count = 0
       /\ th[p].widget.usage_count = MaxRequests

\* Invocation p is inside execute_widget_code, and between its load and
\* its eviction.
InExecute(p) ==
    th[p].pc \in {"x_check", "x_del", "x_load", "x_exec", "x_call", "x_fin",
                  "x_fin_del"}
Loaded(p) == th[p].pc \in {"x_exec", "x_call", "x_fin", "x_fin_del"}

\* C23: on the event loop at most one invocation is inside
\* execute_widget_code, it finds no stale entry to delete, the unit
\* registered while it loads and calls is its own, the entry point it has
\* called is that of its own bundle, and the registry entry is absent
\* whenever no invocation is between load and eviction.
C23_LoopExecuteUninterleaved ==
    /\ \A p, q \in Procs : (InExecute(p) /\ InExecute(q)) => p = q
    /\ \A p \in Procs :
          /\ th[p].pc # "x_del"
          /\ th[p].pc \in {"x_exec", "x_call"} => sys_modules = Module(p)
          /\ th[p].called # None =>
                /\ bundles[p].kind = "file" =>
                      th[p].called.code = bundles[p].code
                /\ th[p].called.code = th[p].snapshot.python_code
                /\ th[p].module.owner = p
    /\ (\A p \in Procs : ~Loaded(p)) => sys_modules = None

\* C23 witness: an invocation has called the entry point of its bundle
\* and not yet evicted its unit, while another request is in flight,
\* waiting for its form.
C23_Witness ==
    \E p, q \in Procs :
       /\ th[p].pc = "x_fin"
       /\ th[p].called # None
       /\ sys_modules = Module(p)
       /\ th[q].pc = "r_await"

\* The request has marshaled its whole form and not yet answered.
PastMarshaling(p) ==
    th[p].op \in {"run", "run_inc"}
    /\ th[p].pc \in {"x_check", "x_load", "x_exec", "x_call", "x_fin",
                     "x_fin_del", "gw_exists", "gw_read", "iu_open",
                     "iu_dump", "r_return", "r_except", "f_bundle",
                     "f_uploads", "f_remove", "end"}
    /\ Len(th[p].paths) = Cardinality({i \in DOMAIN th[p].form :
                                         IsUpload(th[p].form[i])})

\* C24: for a request whose fields i < j upload under one filename, both
\* keys map to the same path and the path is recorded for each of them;
\* the cleanup removes the file at the first record and finds it gone at
\* the later ones, so it never removes a missing file; the response is the
\* one the execution produced, and when it is ready the file is gone.
C24_SameNameTwiceInOneRequest ==
    \A p \in Procs :
       \A i, j \in DOMAIN th[p].form :
          (/\ PastMarshaling(p)
           /\ i < j
           /\ IsUpload(th[p].form[i]) /\ IsUpload(th[p].form[j])
           /\ th[p].form[i].value = th[p].form[j].value) =>
             LET form == th[p].form
                 filename == form[i].value
                 records == {k \in DOMAIN th[p].paths :
                                th[p].paths[k] = filename}
             IN /\ th[p].inputs[form[i].key] = UploadPath(filename)
                /\ th[p].inputs[form[j].key] = UploadPath(filename)
                /\ Cardinality(records) >= 2
                /\ (th[p].pc = "f_remove" /\ th[p].idx \in records) =>
                      \A k \in records : th[p].idx <= k
                /\ (th[p].pc = "f_uploads"
                    /\ \E k \in records : k < th[p].idx) =>
                      uploads[filename] = NoFile
                /\ At(p, "end") =>
                      /\ uploads[filename] = NoFile
                      /\ th[p].exc = "" => IsOutput(th[p].result)
                      /\ th[p].exc # "" =>
                            th[p].result = ErrorResponse(th[p].exc)

\* C24 witness: the cleanup of such a request has removed the file at the
\* first record and stands at the second, after a successful execution.
C24_Witness ==
    \E p \in Procs :
       /\ th[p].form = <<File("a", "f"), File("b", "f")>>
       /\ th[p].pc = "f_uploads"
       /\ th[p].idx = 2
       /\ th[p].paths = <<"f", "f">>
       /\ IsOutput(th[p].result)
       /\ uploads["f"] = NoFile

====
